---- MODULE Spec2Model ----
(***************************************************************************)
(* Catalog cross-matching of astro_utilities/utilities.py:                 *)
(* symmetric_match, symmetric_match_both, match_one and empty_data.        *)
(*                                                                         *)
(* A call is one atomic step (the functions are synchronous and keep no    *)
(* state).  Tables are astropy tables: an ordered list of column names,    *)
(* the dtype kind of every column and the rows.  Python objects live in a  *)
(* heap indexed by object name, so that "a new table" and "the same table" *)
(* are different things.  Indices are 1-based here and 0-based in Python.  *)
(*                                                                         *)
(* Sky positions lie on the celestial equator (dec = 0) and ra is counted  *)
(* in whole arcseconds, so the great-circle separation of two positions is *)
(* exactly |ra - ra'| arcseconds.                                          *)
(***************************************************************************)
EXTENDS Integers, Sequences, FiniteSets, TLC

\* Bounds of the model.
MaxRows == 2    \* rows per input catalog: 1..MaxRows
MaxRa   == 2    \* ra of a record: 0..MaxRa arcseconds
MaxSep  == 3    \* max_sep: 0..MaxSep arcseconds

VARIABLES table_1, table_2, max_sep, pc, match_idx_12, match_idx_21, result

vars == <<table_1, table_2, max_sep, pc, match_idx_12, match_idx_21, result>>

-----------------------------------------------------------------------------
\* Cell values.  A cell is <<tag, payload>>; the tag fixes the payload's type.

FloatCell(x) == <<"float", x>>
IntCell(s)   == <<"int", s>>      \* payload: the decimal digits
StrCell(s)   == <<"str", s>>
NaN      == <<"nan", 0>>          \* np.nan
None     == <<"None", 0>>         \* Python's None

\* empty_data(datatype): the placeholder for a column of the given dtype kind.
\* The function has no final else: any other kind falls through to None.
empty_data(kind) ==
    IF "f" = kind THEN NaN
    ELSE IF "i" = kind THEN IntCell("-999999999999")
    ELSE IF "S" = kind THEN StrCell("")
    ELSE None

-----------------------------------------------------------------------------
\* Tables.

Range(s) == {s[k] : k \in 1..Len(s)}

NoTable == [colnames |-> <<>>, dtype |-> <<>>, rows |-> <<>>]

\* index of column `name` in table t (the name is a column of t)
ColIndex(t, name) == CHOOSE c \in 1..Len(t.colnames) : t.colnames[c] = name

\* t[name]: the column as name, dtype kind and data
GetColumn(t, name) ==
    LET c == ColIndex(t, name) IN
    [name |-> name, kind |-> t.dtype[c],
     data |-> [k \in 1..Len(t.rows) |-> t.rows[k][c]]]

\* the rows of t picked by the index list idx, in the order of idx
TakeRows(t, idx) ==
    [colnames |-> t.colnames, dtype |-> t.dtype,
     rows |-> [k \in 1..Len(idx) |-> t.rows[idx[k]]]]

\* the increasing sequence of the elements of a finite set of integers
RECURSIVE SortedSeq(_)
SortedSeq(S) ==
    IF S = {} THEN <<>>
    ELSE LET m == CHOOSE x \in S : \A y \in S : x <= y
         IN  <<m>> \o SortedSeq(S \ {m})

-----------------------------------------------------------------------------
\* The interpreter state threaded through a function body: the heap of table
\* objects and the pending exception (kind and raising source line).

Objs == {"table_1", "table_2", "matches", "matches_2",
         "non_matches_1", "non_matches_2"}

NoExc == [kind |-> "none", line |-> 0]

Raise(st, kind, line) == [st EXCEPT !.exc = [kind |-> kind, line |-> line]]

Start == [heap |-> [o \in Objs |-> IF o = "table_1" THEN table_1
                                   ELSE IF o = "table_2" THEN table_2
                                   ELSE NoTable],
          exc |-> NoExc,
          ref |-> "table_1"]

\* a slice that hands back the table it was taken from instead of a new one
NewFromSlice_view(st, src, idx, fresh) ==
    [st EXCEPT !.ref = src]

\* table[idx] with a list of row indices: astropy builds a new table object
\* holding copies of the selected rows.  `fresh` is the new object; st.ref is
\* the reference the expression evaluates to.
NewFromSlice(st, src, idx, fresh) ==
    [st EXCEPT !.heap[fresh] = TakeRows(st.heap[src], idx), !.ref = fresh]

\* table.copy(): a new table object with the same columns and rows
Copy(st, src, fresh) ==
    [st EXCEPT !.heap[fresh] = st.heap[src], !.ref = fresh]

\* t.rename_column(name, new_name); astropy raises KeyError when new_name is
\* already a column of t
rename_column(st, t, name, new_name, line) ==
    IF new_name \in Range(st.heap[t].colnames)
    THEN Raise(st, "KeyError", line)
    ELSE LET c == ColIndex(st.heap[t], name)
         IN  [st EXCEPT !.heap[t].colnames[c] = new_name]

\* t.add_column(col); astropy raises ValueError on a duplicate column name
\* and on a column whose length is not the table's
add_column(st, t, col, line) ==
    IF \/ col.name \in Range(st.heap[t].colnames)
       \/ Len(col.data) # Len(st.heap[t].rows)
    THEN Raise(st, "ValueError", line)
    ELSE [st EXCEPT !.heap[t] =
            [colnames |-> Append(@.colnames, col.name),
             dtype    |-> Append(@.dtype, col.kind),
             rows     |-> [k \in 1..Len(@.rows) |-> Append(@.rows[k], col.data[k])]]]

\* t.add_row(vals)
add_row(st, t, vals) ==
    [st EXCEPT !.heap[t].rows = Append(@, vals)]

\* t.remove_rows(idx)
remove_rows(st, t, idx) ==
    LET keep == SortedSeq((1..Len(st.heap[t].rows)) \ Range(idx))
    IN  [st EXCEPT !.heap[t].rows = [k \in 1..Len(keep) |-> st.heap[t].rows[keep[k]]]]

-----------------------------------------------------------------------------
\* Coordinates and nearest neighbours.

Abs(x) == IF x < 0 THEN -x ELSE x

\* SkyCoord(table[ra_col], table[dec_col], unit=u.degree) with the default
\* column names "ra" and "dec"
SkyCoord(t) ==
    [k \in 1..Len(t.rows) |->
        <<t.rows[k][ColIndex(t, "ra")][2], t.rows[k][ColIndex(t, "dec")][2]>>]

\* great-circle separation in arcseconds of two positions on the equator
Separation(p, q) == Abs(p[1] - q[1])

\* match_coordinates_sky(coords_a, coords_b): for every position of coords_a
\* the index of a nearest position of coords_b.  The library does not fix
\* which of several equidistant neighbours it returns, so this is the set of
\* index arrays it may return.
match_coordinates_sky(coords_a, coords_b) ==
    {f \in [1..Len(coords_a) -> 1..Len(coords_b)] :
        \A i \in 1..Len(coords_a) : \A j \in 1..Len(coords_b) :
            Separation(coords_a[i], coords_b[f[i]]) <= Separation(coords_a[i], coords_b[j])}

\* the separations returned along with the index array idx
SepOf(coords_a, coords_b, idx) ==
    [i \in 1..Len(coords_a) |-> Separation(coords_a[i], coords_b[idx[i]])]

-----------------------------------------------------------------------------
\* Input catalogs.

Field(name, kind) == [name |-> name, kind |-> kind]

\* column layouts of the two catalogs
Plain_id   == <<Field("ra", "f"), Field("dec", "f"), Field("id", "i")>>
Plain_name == <<Field("ra", "f"), Field("dec", "f"), Field("name", "S")>>
Plain_U    == <<Field("ra", "f"), Field("dec", "f"), Field("label", "U")>>
Plain_ra_2 == <<Field("ra", "f"), Field("dec", "f"), Field("ra_2", "f")>>
Mag_first  == <<Field("mag", "f"), Field("ra", "f"), Field("dec", "f")>>
Ra_2_first == <<Field("ra_2", "f"), Field("ra", "f"), Field("dec", "f")>>

\* the pairs <<layout of table_1, layout of table_2>> the calls are made with
Schemas ==
    { <<Plain_id, Plain_id>>,        \* ra, dec and id collide
      <<Plain_id, Mag_first>>,       \* a catalog-2 field of its own comes first
      <<Plain_name, Plain_U>>,       \* byte strings, unicode strings
      <<Plain_name, Plain_id>>,
      <<Plain_ra_2, Plain_id>>,      \* table_1 already has a "ra_2"
      <<Plain_id, Ra_2_first>> }     \* table_2 already has a "ra_2"

Digits == <<"1", "2", "3", "4">>
Letters == <<"a", "b", "c", "d">>

\* the value of a data column (not ra, not dec) in row k of catalog n: it
\* identifies the record
DataCell(kind, n, k) ==
    IF kind = "f" THEN FloatCell(10 * n + k)
    ELSE IF kind = "i" THEN IntCell(Digits[n] \o Digits[k])
    ELSE StrCell(Letters[n] \o Digits[k])

MakeTable(schema, n, ras) ==
    [colnames |-> [c \in 1..Len(schema) |-> schema[c].name],
     dtype    |-> [c \in 1..Len(schema) |-> schema[c].kind],
     rows     |-> [k \in 1..Len(ras) |->
                    [c \in 1..Len(schema) |->
                        IF schema[c].name = "ra" THEN FloatCell(ras[k])
                        ELSE IF schema[c].name = "dec" THEN FloatCell(0)
                        ELSE DataCell(schema[c].kind, n, k)]]]

\* the ra of the rows of a catalog, in row order: the records of one catalog
\* are at distinct positions, in any order
Positions ==
    UNION {{ras \in [1..n -> 0..MaxRa] :
                \A a, b \in 1..n : a # b => ras[a] # ras[b]} : n \in 1..MaxRows}

NoResult == [status |-> "none", exc |-> NoExc, table |-> NoTable]

Init ==
    /\ \E s \in Schemas, ras_1 \in Positions, ras_2 \in Positions :
            /\ table_1 = MakeTable(s[1], 1, ras_1)
            /\ table_2 = MakeTable(s[2], 2, ras_2)
    /\ max_sep \in 0..MaxSep
    /\ pc = "call"
    /\ match_idx_12 = <<>>
    /\ match_idx_21 = <<>>
    /\ result = NoResult

-----------------------------------------------------------------------------
\* The parts the three functions share.

Failed(st) == st.exc.kind # "none"

\* the test without the backward check
IsSymmetric_forward_only(idx_12, idx_21, sep_12, thr, i) ==
    sep_12[i] < thr

\* the test of the symmetric loop for catalog-1 index i
IsSymmetric(idx_12, idx_21, sep_12, thr, i) ==
    i = idx_21[idx_12[i]] /\ sep_12[i] < thr

\* the loop building symmetric_12: the triples (idx_1, match_idx, sep) of the
\* accepted pairs, scanning catalog 1 from index i on
RECURSIVE symmetric_loop(_, _, _, _, _)
symmetric_loop(idx_12, idx_21, sep_12, thr, i) ==
    IF i > Len(idx_12) THEN <<>>
    ELSE (IF IsSymmetric(idx_12, idx_21, sep_12, thr, i)
          THEN << <<i, idx_12[i], sep_12[i]>> >>
          ELSE <<>>)
         \o symmetric_loop(idx_12, idx_21, sep_12, thr, i + 1)

\* an unpacking that yields three empty lists for an empty symmetric_12
zip_unpack_empty_ok(st, symmetric_12, line) == st

\* idx_1, idx_2, sep = zip(*symmetric_12): unpacking an empty zip into three
\* names raises ValueError
zip_unpack(st, symmetric_12, line) ==
    IF Len(symmetric_12) = 0 THEN Raise(st, "ValueError", line) ELSE st

\* component c of every triple of symmetric_12, as a list
Unzip(symmetric_12, c) == [k \in 1..Len(symmetric_12) |-> symmetric_12[k][c]]

\* a loop body that stores a colliding catalog-2 column over the catalog-1
\* column of the same name
merge_step_overwrite(st, m, m2, col, line) ==
    IF col \in Range(st.heap[m].colnames)
    THEN LET c    == ColIndex(st.heap[m], col)
             data == GetColumn(st.heap[m2], col).data
         IN  [st EXCEPT !.heap[m].rows =
                [k \in 1..Len(@) |-> [@[k] EXCEPT ![c] = data[k]]]]
    ELSE add_column(st, m, GetColumn(st.heap[m2], col), line + 5)

\* the body of `for col in matches_2.colnames:`; cols is the list of names
\* taken when the loop starts, k the position in it, line the line of the for
merge_step(st, m, m2, col, line) ==
    IF col \in Range(st.heap[m].colnames)
    THEN LET renamed == rename_column(st, m2, col, col \o "_2", line + 2)
         IN  IF Failed(renamed) THEN renamed
             ELSE add_column(renamed, m, GetColumn(renamed.heap[m2], col \o "_2"), line + 3)
    ELSE add_column(st, m, GetColumn(st.heap[m2], col), line + 5)

RECURSIVE merge_columns(_, _, _, _, _, _)
merge_columns(st, m, m2, cols, k, line) ==
    IF Failed(st) \/ k > Len(cols) THEN st
    ELSE merge_columns(merge_step(st, m, m2, cols[k], line), m, m2, cols, k + 1, line)

\* matches.add_column(table.Column(data=sep, name="sep [arcsec]"))
add_sep_column(st, m, sep, line) ==
    IF Failed(st) THEN st
    ELSE add_column(st, m, [name |-> "sep [arcsec]", kind |-> "f",
                            data |-> [k \in 1..Len(sep) |-> FloatCell(sep[k])]], line)

\* from `matches = table_1[...]` to the added separation column: the merged
\* table of the rows idx_1 of table_1 and idx_2 of table_2.  line is the line
\* of `for col in matches_2.colnames:`.
merge_tables(st, idx_1, idx_2, sep, line) ==
    IF Failed(st) THEN st
    ELSE LET s1 == NewFromSlice(st, "table_1", idx_1, "matches")
             m  == s1.ref
             s2 == NewFromSlice(s1, "table_2", idx_2, "matches_2")
             m2 == s2.ref
             s3 == merge_columns(s2, m, m2, s2.heap[m2].colnames, 1, line)
             s4 == add_sep_column(s3, m, sep, line + 7)
         IN  [s4 EXCEPT !.ref = m]

\* what the caller gets: the table st.ref refers to, or the exception
Outcome(st) ==
    IF Failed(st) THEN [status |-> "raised", exc |-> st.exc, table |-> NoTable]
    ELSE [status |-> "returned", exc |-> NoExc, table |-> st.heap[st.ref]]

-----------------------------------------------------------------------------
\* symmetric_match(table_1, table_2, max_sep)

symmetric_match_body(idx_12, idx_21) ==
    LET sep_12       == SepOf(SkyCoord(table_1), SkyCoord(table_2), idx_12)
        symmetric_12 == symmetric_loop(idx_12, idx_21, sep_12, max_sep, 1)
        s1           == zip_unpack(Start, symmetric_12, 141)
    IN  merge_tables(s1, Unzip(symmetric_12, 1), Unzip(symmetric_12, 2),
                     Unzip(symmetric_12, 3), 152)

symmetric_match ==
    /\ pc = "call"
    /\ \E idx_12 \in match_coordinates_sky(SkyCoord(table_1), SkyCoord(table_2)),
          idx_21 \in match_coordinates_sky(SkyCoord(table_2), SkyCoord(table_1)) :
            \E end \in {symmetric_match_body(idx_12, idx_21)} :
            /\ match_idx_12' = idx_12
            /\ match_idx_21' = idx_21
            /\ table_1' = end.heap["table_1"]
            /\ table_2' = end.heap["table_2"]
            /\ result' = Outcome(end)
    /\ pc' = "symmetric_match"
    /\ UNCHANGED max_sep

-----------------------------------------------------------------------------
\* symmetric_match_both(table_1, table_2, max_sep)

\* the new_row of `for row in non_matches_1:`: the row's own items, then an
\* empty_data for every further column of matches
new_row_1(st, m, row) ==
    LET names == st.heap[m].colnames IN
    row \o [c \in 1..(Len(names) - Len(row)) |->
              empty_data(GetColumn(st.heap[m], names[Len(row) + c]).kind)]

\* the new_row of `for row in non_matches_2:`: an empty_data for each of the
\* first len(non_matches_1.colnames) columns of matches, the row's own items,
\* then np.nan for the separation
new_row_2(st, m, nm1, row) ==
    LET names == st.heap[m].colnames IN
    [c \in 1..Len(st.heap[nm1].colnames) |->
        empty_data(GetColumn(st.heap[m], names[c]).kind)]
    \o row \o <<NaN>>

RECURSIVE add_non_matches_1(_, _, _, _)
add_non_matches_1(st, m, nm1, k) ==
    IF k > Len(st.heap[nm1].rows) THEN st
    ELSE add_non_matches_1(add_row(st, m, new_row_1(st, m, st.heap[nm1].rows[k])),
                           m, nm1, k + 1)

RECURSIVE add_non_matches_2(_, _, _, _, _)
add_non_matches_2(st, m, nm1, nm2, k) ==
    IF k > Len(st.heap[nm2].rows) THEN st
    ELSE add_non_matches_2(add_row(st, m, new_row_2(st, m, nm1, st.heap[nm2].rows[k])),
                           m, nm1, nm2, k + 1)

\* the two loops swapped
add_non_matches_2_first(st, m, nm1, nm2) ==
    add_non_matches_1(add_non_matches_2(st, m, nm1, nm2, 1), m, nm1, 1)

\* the two loops over the non-matches, in the order of the source
add_non_matches(st, m, nm1, nm2) ==
    add_non_matches_2(add_non_matches_1(st, m, nm1, 1), m, nm1, nm2, 1)

symmetric_match_both_body(idx_12, idx_21) ==
    LET sep_12       == SepOf(SkyCoord(table_1), SkyCoord(table_2), idx_12)
        symmetric_12 == symmetric_loop(idx_12, idx_21, sep_12, max_sep, 1)
        idx_1        == Unzip(symmetric_12, 1)
        idx_2        == Unzip(symmetric_12, 2)
        s1           == zip_unpack(Start, symmetric_12, 221)
        s2           == merge_tables(s1, idx_1, idx_2, Unzip(symmetric_12, 3), 232)
    IN  IF Failed(s2) THEN s2
        ELSE LET m   == s2.ref
                 s3  == Copy(s2, "table_1", "non_matches_1")
                 nm1 == s3.ref
                 s4  == Copy(s3, "table_2", "non_matches_2")
                 nm2 == s4.ref
                 s5  == remove_rows(remove_rows(s4, nm1, idx_1), nm2, idx_2)
                 s6  == add_non_matches(s5, m, nm1, nm2)
             IN  [s6 EXCEPT !.ref = m]

symmetric_match_both ==
    /\ pc = "call"
    /\ \E idx_12 \in match_coordinates_sky(SkyCoord(table_1), SkyCoord(table_2)),
          idx_21 \in match_coordinates_sky(SkyCoord(table_2), SkyCoord(table_1)) :
            \E end \in {symmetric_match_both_body(idx_12, idx_21)} :
            /\ match_idx_12' = idx_12
            /\ match_idx_21' = idx_21
            /\ table_1' = end.heap["table_1"]
            /\ table_2' = end.heap["table_2"]
            /\ result' = Outcome(end)
    /\ pc' = "symmetric_match_both"
    /\ UNCHANGED max_sep

-----------------------------------------------------------------------------
\* match_one(table_1, table_2, max_sep)

\* the selection with <= in place of <
where_close_inclusive(sep_12, thr) ==
    SortedSeq({i \in 1..Len(sep_12) : sep_12[i] <= thr})

\* np.where(sep_12 < max_sep * u.arcsec): the indices, increasing
where_close(sep_12, thr) ==
    SortedSeq({i \in 1..Len(sep_12) : sep_12[i] < thr})

match_one_body(idx_12) ==
    LET sep_12    == SepOf(SkyCoord(table_1), SkyCoord(table_2), idx_12)
        close     == where_close(sep_12, max_sep)
        match_idx == [k \in 1..Len(close) |-> idx_12[close[k]]]
        sep       == [k \in 1..Len(close) |-> sep_12[close[k]]]
    IN  merge_tables(Start, close, match_idx, sep, 314)

match_one ==
    /\ pc = "call"
    /\ \E idx_12 \in match_coordinates_sky(SkyCoord(table_1), SkyCoord(table_2)) :
            \E end \in {match_one_body(idx_12)} :
            /\ match_idx_12' = idx_12
            /\ match_idx_21' = <<>>     \* computed at line 303, never read
            /\ table_1' = end.heap["table_1"]
            /\ table_2' = end.heap["table_2"]
            /\ result' = Outcome(end)
    /\ pc' = "match_one"
    /\ UNCHANGED max_sep

-----------------------------------------------------------------------------
Next == symmetric_match \/ symmetric_match_both \/ match_one

Spec == Init /\ [][Next]_vars

-----------------------------------------------------------------------------
\* Vocabulary of the properties, stated on the inputs and on the two index
\* arrays the call obtained, independently of the function bodies.

n_1 == Len(table_1.rows)
n_2 == Len(table_2.rows)
w_1 == Len(table_1.colnames)
w_2 == Len(table_2.colnames)

Returned == result.status = "returned"
RaisedAt(kind, line) ==
    result.status = "raised" /\ result.exc = [kind |-> kind, line |-> line]

out == result.table.rows

\* separation of record i of catalog 1 and record j of catalog 2
Dist(i, j) == Separation(SkyCoord(table_1)[i], SkyCoord(table_2)[j])

F(i)   == match_idx_12[i]
Bwd(j) == match_idx_21[j]

\* F(i) is a nearest record of catalog 2, Bwd(j) a nearest record of catalog 1
ForwardIsNearest  == \A i \in 1..n_1 : \A j \in 1..n_2 : Dist(i, F(i)) <= Dist(i, j)
BackwardIsNearest == \A j \in 1..n_2 : \A i \in 1..n_1 : Dist(Bwd(j), j) <= Dist(i, j)

\* the accepted pairs of the symmetric modes, by their catalog-1 index
Accepted == {i \in 1..n_1 : Bwd(F(i)) = i /\ Dist(i, F(i)) < max_sep}
Unmatched_1 == (1..n_1) \ Accepted
Unmatched_2 == (1..n_2) \ {F(i) : i \in Accepted}

\* the records of catalog 1 the one-directional mode accepts
Close == {i \in 1..n_1 : Dist(i, F(i)) < max_sep}

\* the three parts of an output row
Part_1(row)  == SubSeq(row, 1, w_1)
Part_2(row)  == SubSeq(row, w_1 + 1, w_1 + w_2)
SepCell(row) == row[w_1 + w_2 + 1]

\* the merged row of the pair (i, j)
MergedRow(i, j) == table_1.rows[i] \o table_2.rows[j] \o <<FloatCell(Dist(i, j))>>

\* no suffixed name is taken already: for every catalog-2 field whose name is
\* a catalog-1 field, name_2 is a field of neither catalog
SuffixFree ==
    \A c \in 1..w_2 :
        table_2.colnames[c] \in Range(table_1.colnames)
        => (table_2.colnames[c] \o "_2")
               \notin (Range(table_1.colnames) \cup Range(table_2.colnames))

\* the name the merged record gives to catalog-2 field c
MergedName(c) ==
    IF table_2.colnames[c] \in Range(table_1.colnames)
    THEN table_2.colnames[c] \o "_2"
    ELSE table_2.colnames[c]

\* the placeholder the specification gives a field kind: not-a-number for
\* floating point, the large negative integer, the empty string for strings
SentinelOf(kind) ==
    IF kind = "f" THEN NaN
    ELSE IF kind = "i" THEN IntCell("-999999999999")
    ELSE StrCell("")

-----------------------------------------------------------------------------
\* C1: strict symmetric mode: a pair (i, j) is in the output iff F(i) = j,
\* Bwd(j) = i and their separation is strictly below max_sep, F and Bwd being
\* nearest-neighbour maps; the output has exactly one merged row per accepted
\* pair, in increasing catalog-1 index.  The call returns an output exactly
\* when a pair is accepted and no suffixed field name is taken already.
C1_SymmetricAcceptance ==
    pc = "symmetric_match" =>
        LET acc == SortedSeq(Accepted) IN
        /\ Returned <=> (Accepted # {} /\ SuffixFree)
        /\ Returned =>
            /\ ForwardIsNearest /\ BackwardIsNearest
            /\ Len(out) = Len(acc)
            /\ \A k \in 1..Len(acc) : out[k] = MergedRow(acc[k], F(acc[k]))
            /\ \A i \in 1..n_1 : \A j \in 1..n_2 :
                  (\E k \in 1..Len(out) : out[k] = MergedRow(i, j))
                  <=> (F(i) = j /\ Bwd(j) = i /\ Dist(i, j) < max_sep)

\* a strict call that returned a pair and left out a record of catalog 1
\* which is close enough to its nearest neighbour but is not that
\* neighbour's nearest
C1_Witness ==
    /\ pc = "symmetric_match" /\ Returned /\ Len(out) >= 1
    /\ \E i \in 1..n_1 : Dist(i, F(i)) < max_sep /\ Bwd(F(i)) # i

\* C2: the "include unmatched" mode does not fail when no pair is accepted:
\* it returns one unmatched row per catalog-1 record, then one per catalog-2
\* record, each with the other side's fields as placeholders.
C2_BothReturnsOnZeroMatches ==
    (pc = "symmetric_match_both" /\ Accepted = {}) =>
        /\ Returned
        /\ Len(out) = n_1 + n_2
        /\ \A i \in 1..n_1 : Part_1(out[i]) = table_1.rows[i]
        /\ \A j \in 1..n_2 : Part_2(out[n_1 + j]) = table_2.rows[j]

\* C3: strict symmetric mode with no accepted pair fails with the error of
\* the unpacking at line 141, and a call that returns has at least one row.
C3_StrictFailsOnZeroMatches ==
    pc = "symmetric_match" =>
        /\ Accepted = {} => RaisedAt("ValueError", 141)
        /\ Returned => Len(out) >= 1

\* a strict call on catalogs with no accepted pair, which failed
C3_Witness ==
    pc = "symmetric_match" /\ Accepted = {} /\ result.status = "raised"

\* C4: "include unmatched" mode: the output has |matched| + |unmatched 1| +
\* |unmatched 2| rows and every record of either catalog is in exactly one
\* output row.
C4_EveryRecordExactlyOnce ==
    (pc = "symmetric_match_both" /\ SuffixFree) =>
        /\ Returned
        /\ Len(out) = Cardinality(Accepted) + Cardinality(Unmatched_1)
                        + Cardinality(Unmatched_2)
        /\ \A i \in 1..n_1 :
              Cardinality({k \in 1..Len(out) : Part_1(out[k]) = table_1.rows[i]}) = 1
        /\ \A j \in 1..n_2 :
              Cardinality({k \in 1..Len(out) : Part_2(out[k]) = table_2.rows[j]}) = 1

\* C5: one-directional mode: record i of catalog 1 is emitted, merged with
\* F(i), iff their separation is strictly below max_sep, whether or not i is
\* the nearest neighbour of F(i); the rows are in catalog-1 index order, there
\* are at most |catalog 1| of them and none stands for a catalog-2 record
\* alone.  The call returns exactly when no suffixed field name is taken
\* already, also when it accepts no record.
C5_OneDirectional ==
    pc = "match_one" =>
        LET close == SortedSeq(Close) IN
        /\ Returned <=> SuffixFree
        /\ Returned =>
            /\ ForwardIsNearest
            /\ Len(out) = Len(close)
            /\ Len(out) <= n_1
            /\ \A k \in 1..Len(close) : out[k] = MergedRow(close[k], F(close[k]))

\* a one-directional call that emitted a record i although another record
\* of catalog 1 is strictly nearer to F(i)
C5_Witness ==
    /\ pc = "match_one" /\ Returned
    /\ \E i \in Close : \E h \in 1..n_1 : Dist(h, F(i)) < Dist(i, F(i))

\* C6: record merge, in all three modes: the merged table has the catalog-1
\* fields under their names, then the catalog-2 fields in catalog-2 order,
\* each under its name or, when the name collides, under name_2, then the
\* separation; that is w_1 + w_2 + 1 fields, and every row that carries a
\* catalog-1 record carries its values unchanged.  A merged table exists only
\* when no suffixed field name is taken already.
C6_MergedFields ==
    (pc # "call" /\ Returned) =>
        /\ SuffixFree
        /\ result.table.colnames
             = table_1.colnames \o [c \in 1..w_2 |-> MergedName(c)] \o <<"sep [arcsec]">>
        /\ result.table.dtype = table_1.dtype \o table_2.dtype \o <<"f">>
        /\ Len(result.table.colnames) = w_1 + w_2 + 1
        /\ \A k \in 1..Len(out) : Len(out[k]) = w_1 + w_2 + 1
        /\ \A k \in 1..Len(out) :
              SepCell(out[k]) # NaN =>
                 \E i \in 1..n_1 : \E j \in 1..n_2 : out[k] = MergedRow(i, j)

\* a call that returned a merged row in which a catalog-2 field was renamed
\* (id to id_2) and one kept its name
C6_Witness ==
    /\ pc # "call" /\ Returned /\ Len(out) >= 1
    /\ \E c, d \in 1..w_2 :
          /\ MergedName(c) # table_2.colnames[c]
          /\ MergedName(d) = table_2.colnames[d]

\* C7: "include unmatched" mode: an unmatched catalog-1 record keeps its
\* values and has the placeholder of the field's kind in every catalog-2
\* field and not-a-number as separation; likewise an unmatched catalog-2
\* record; every field kind that occurs has its placeholder.
C7_UnmatchedPlaceholders ==
    (pc = "symmetric_match_both" /\ Returned) =>
        \A k \in 1..Len(out) :
            SepCell(out[k]) = NaN =>
               \/ /\ Part_1(out[k]) \in Range(table_1.rows)
                  /\ Part_2(out[k]) = [c \in 1..w_2 |-> SentinelOf(table_2.dtype[c])]
               \/ /\ Part_2(out[k]) \in Range(table_2.rows)
                  /\ Part_1(out[k]) = [c \in 1..w_1 |-> SentinelOf(table_1.dtype[c])]

C9_InputsUnchanged ==
    [][table_1' = table_1 /\ table_2' = table_2]_vars

\* a "include unmatched" call is over that renamed colliding catalog-2
\* columns and removed rows from its copies of both catalogs
C9_Witness ==
    /\ pc = "symmetric_match_both" /\ Returned
    /\ \E c \in 1..w_2 : MergedName(c) # table_2.colnames[c]
    /\ Accepted # {}

====
